---- MODULE Spec2Model ----
(***************************************************************************)
(* AnimationPipeline.__call__ of animate/unet_magic_noiseAttenST_Ada/      *)
(* pipeline.py: the sliding-context denoising loop, run by world_size      *)
(* ranks that cooperate through gather, barrier and broadcast.             *)
(*                                                                         *)
(* Tensors are modelled per frame: a latent is a function from frame index *)
(* to an exact rational, the accumulated prediction is a sequence of       *)
(* halves (unconditional, conditional) of per-frame integers, the counter  *)
(* is a per-frame natural.  The noise-prediction network, the scheduler    *)
(* and the context scheduler are external collaborators: the network and   *)
(* the scheduler are fixed deterministic functions of everything they are  *)
(* handed, the context scheduler's output is an arbitrary window list.     *)
(***************************************************************************)
EXTENDS Integers, Sequences, FiniteSets, TLC

\* ---------------------------------------------------------------- bounds
NumFrames == 3
MaxWinLen == 2
MaxWindows == 4
MaxBatch == 2
MaxWorld == 2
NumSteps == 2

\* num_actual_inference_steps: Optional[int] = None
None == -1

Frames == 0 .. (NumFrames - 1)

\* ------------------------------------------------------ exact arithmetic
Abs(x) == IF x < 0 THEN -x ELSE x

Gcd[a \in Nat, b \in Nat] == IF b = 0 THEN a ELSE Gcd[b, a % b]

\* inf and nan: what a division by zero yields, and everything computed from it
NonFinite == <<0, 0>>

IsFinite(x) == x[2] # 0

Rat[n \in Int, d \in Int] ==
    IF d = 0 THEN NonFinite
    ELSE LET g == Gcd[Abs(n), Abs(d)]
             s == IF d < 0 THEN -1 ELSE 1
         IN  <<(s * n) \div g, (s * d) \div g>>

FromInt(n) == <<n, 1>>

RAdd[x \in Int \X Int, y \in Int \X Int] ==
    IF IsFinite(x) /\ IsFinite(y)
    THEN Rat[x[1] * y[2] + y[1] * x[2], x[2] * y[2]]
    ELSE NonFinite

RSub[x \in Int \X Int, y \in Int \X Int] ==
    IF IsFinite(x) /\ IsFinite(y)
    THEN Rat[x[1] * y[2] - y[1] * x[2], x[2] * y[2]]
    ELSE NonFinite

RMul[x \in Int \X Int, y \in Int \X Int] ==
    IF IsFinite(x) /\ IsFinite(y)
    THEN Rat[x[1] * y[1], x[2] * y[2]]
    ELSE NonFinite

\* tensor / counter, element-wise: no check of the divisor
RDivInt(n, c) == Rat[n, c]

\* ------------------------------------------------------------- sequences
RECURSIVE Flatten(_)
Flatten(ss) == IF ss = <<>> THEN <<>> ELSE Head(ss) \o Flatten(Tail(ss))

RECURSIVE Repeat(_, _)
Repeat(s, k) == IF k = 0 THEN <<>> ELSE s \o Repeat(s, k - 1)

Range(s) == {s[k] : k \in DOMAIN s}

RECURSIVE SumSeq(_)
SumSeq(s) == IF s = <<>> THEN 0 ELSE Head(s) + SumSeq(Tail(s))

\* ------------------------------------------------------------ call inputs
\* A context window: context_frames consecutive frame indices.
Window(start, len) == [k \in 1 .. len |-> start + k - 1]

WindowsOfLen(len) == {Window(s, len) : s \in 0 .. (NumFrames - len)}

\* list(context_scheduler(0, num_inference_steps, latents.shape[2], context_frames,
\* context_stride, context_overlap)): the scheduler is external, so its output is any
\* non-empty list of windows of one length, in temporal order (repeats allowed).
WindowLists ==
    UNION {UNION {{q \in [1 .. m -> WindowsOfLen(len)] :
                      \A k \in 1 .. (m - 1) : q[k][1] <= q[k + 1][1]} :
                  m \in 1 .. MaxWindows} :
           len \in 1 .. MaxWinLen}

\* kwargs.get("dist", False), kwargs.get("rank", 0), kwargs.get("world_size", 1):
\* the launcher passes world_size > 1 only together with dist = True, and starts one
\* call per rank 0 .. world_size - 1 with the same arguments.
CallArgs ==
    {a \in [context_queue : WindowLists,
            context_batch_size : 1 .. MaxBatch,
            world_size : 1 .. MaxWorld,
            dist : BOOLEAN,
            do_classifier_free_guidance : BOOLEAN,
            guidance_scale : {1, 2},
            num_inference_steps : {NumSteps},
            num_actual_inference_steps : {None} \cup (0 .. (NumSteps + 1))] :
        /\ a.world_size > 1 => a.dist
        /\ ~a.do_classifier_free_guidance => a.guidance_scale = 2}

\* guidance_scale > 1.0 and do_classifier_free_guidance
UseGuidance(a) == a.guidance_scale > 1 /\ a.do_classifier_free_guidance

\* if num_actual_inference_steps is None: num_actual_inference_steps = num_inference_steps
NumActual(a) ==
    IF a.num_actual_inference_steps = None THEN a.num_inference_steps
    ELSE a.num_actual_inference_steps

\* self.scheduler.set_timesteps(num_inference_steps); timesteps = self.scheduler.timesteps:
\* a strictly decreasing schedule of num_inference_steps timesteps, indexed from 0.
Timestep(a, pos) == a.num_inference_steps - pos

\* mutant of SkipStep: the boundary timestep is skipped too
SkipStepOffByOne(a, i) == i <= a.num_inference_steps - NumActual(a)

\* the skip test of the loop body, on the loop variable i
SkipStep(a, i) == i < a.num_inference_steps - NumActual(a)

\* latents = self.prepare_latents(...): the same initial noise on every rank
InitLatents == [f \in Frames |-> FromInt(f + 1)]

\* the first argument of context_scheduler(0, num_inference_steps, ...) in the timestep
\* at position i of the schedule
ContextStepIndex(i) == 0

\* ----------------------------------------------------- window partitioning
CeilDiv(x, y) == (x + y - 1) \div y

Min(x, y) == IF x < y THEN x ELSE y

\* global_context: context_queue cut into num_context_batches slices
GlobalContext(queue, batch_size) ==
    [b \in 1 .. CeilDiv(Len(queue), batch_size) |->
        SubSeq(queue, (b - 1) * batch_size + 1, Min(b * batch_size, Len(queue)))]

\* mutant of Shard: the slice loses the batch after the last full stride
ShardDropsTail(gc, rank, world_size) ==
    LET count == IF Len(gc) > rank THEN (Len(gc) - rank) \div world_size ELSE 0
    IN  [k \in 1 .. count |-> gc[rank + (k - 1) * world_size + 1]]

\* global_context[rank::world_size]
Shard(gc, rank, world_size) ==
    LET count == IF Len(gc) > rank THEN CeilDiv(Len(gc) - rank, world_size) ELSE 0
    IN  [k \in 1 .. count |-> gc[rank + (k - 1) * world_size + 1]]

\* ------------------------------------------------------- guidance batching
\* text_embeddings = torch.cat([text_embeddings] * context_batch_size), where
\* _encode_prompt returns torch.cat([uncond_embeddings, text_embeddings]) under guidance
TextEmbeddings(batch_size, guidance) ==
    Repeat(IF guidance THEN <<"uncond", "cond">> ELSE <<"cond">>, batch_size)

\* self.scheduler.scale_model_input(latent_model_input, t)
ScaleModelInput(x, t) == RMul[x, FromInt(t)]

\* torch.cat([latents[:, :, c] for c in context]).repeat(2 if guidance else 1, ...),
\* then scaled; each batch entry keeps the frame indices it was sliced at
LatentModelInput(lat, context, guidance, t) ==
    Repeat([j \in 1 .. Len(context) |->
                [frames |-> context[j],
                 x |-> [k \in 1 .. Len(context[j]) |->
                            ScaleModelInput(lat[context[j][k]], t)]]],
           IF guidance THEN 2 ELSE 1)

\* controlnet_cond = torch.cat([controlnet_cond_images[c] for c in context]):
\* the control map of frame f is named by f
ControlnetCond(context) == Flatten(context)

\* rearrange(controlnet_cond, "(b f) c h w -> b c f h w", b=context_batch_size) raises
\* unless the leading dimension is a multiple of b
RearrangeOk(cond, batch_size) == Len(cond) % batch_size = 0

\* pose_guide_conditions, doubled under guidance
PoseGuideConditions(cond, batch_size, guidance) ==
    LET f == Len(cond) \div batch_size
    IN  Repeat([b \in 1 .. batch_size |-> SubSeq(cond, (b - 1) * f + 1, b * f)],
               IF guidance THEN 2 ELSE 1)

\* ------------------------------------------------ noise-prediction network
Digest(x) == IF IsFinite(x) THEN (x[1] + 3 * x[2]) % 7 ELSE 0

\* the prediction for position k of one batch entry: a function of the whole entry,
\* the timestep, the embedding and the control maps paired with the entry
UnetOut(x, t, emb, pose, k) ==
    1 + ((SumSeq([j \in DOMAIN x |-> j * Digest(x[j])])
          + SumSeq([j \in DOMAIN pose |-> (j + 1) * pose[j]])
          + 2 * t + (IF emb = "cond" THEN 3 ELSE 0) + 5 * k) % 7)

\* self.unet(latent_model_input, t, encoder_hidden_states=text_embeddings,
\*           pose_guide_conditions=pose_guide_conditions, ...)[0]
Unet(input, t, embeddings, pose) ==
    [e \in DOMAIN input |->
        [k \in DOMAIN input[e].x |->
            UnetOut(input[e].x, t, embeddings[e], pose[e], k)]]

\* what entry e of the batch was paired with in the call
UnetPairs(input, embeddings, pose) ==
    [e \in DOMAIN input |->
        [frames |-> input[e].frames, emb |-> embeddings[e], pose |-> pose[e]]]

\* ------------------------------------------------------------ accumulation
\* noise_pred = torch.zeros((latents.shape[0] * (2 if guidance else 1), ...)):
\* one half per guidance branch; counter = torch.zeros((1, 1, frames, 1, 1))
ZeroNoisePred(guidance) ==
    [h \in 1 .. (IF guidance THEN 2 ELSE 1) |-> [f \in Frames |-> 0]]

ZeroCounter == [f \in Frames |-> 0]

PosOf(c, f) == CHOOSE k \in DOMAIN c : c[k] = f

\* the batch axis of pred after "pred_uc, pred_c = pred.chunk(2);
\* pred = torch.cat([pred_uc.unsqueeze(0), pred_c.unsqueeze(0)])": pred[:, j] is
\* (pred_uc[j], pred_c[j]); without guidance pred.unsqueeze(1)[:, 0] is the whole batch
PredOfWindow(pred, n, j, guidance) ==
    IF guidance THEN <<pred[j], pred[n + j]>> ELSE <<pred[j]>>

\* noise_pred[:, :, c] = noise_pred[:, :, c] + pred[:, j] raises without guidance when
\* the batch holds more than one window (pred[:, 0] has the batch's size, not 1)
ScatterOk(context, guidance) == guidance \/ Len(context) = 1

\* noise_pred[:, :, c] = noise_pred[:, :, c] + pred[:, j]; counter[:, :, c] += 1
AddWindow(acc, c, p) ==
    [noise_pred |->
        [h \in DOMAIN acc.noise_pred |->
            [f \in Frames |->
                IF f \in Range(c) THEN acc.noise_pred[h][f] + p[h][PosOf(c, f)]
                ELSE acc.noise_pred[h][f]]],
     counter |->
        [f \in Frames |-> IF f \in Range(c) THEN acc.counter[f] + 1 ELSE acc.counter[f]]]

\* for j, c in enumerate(context): ...
RECURSIVE ScatterFrom(_, _, _, _, _)
ScatterFrom(acc, context, pred, guidance, j) ==
    IF j > Len(context) THEN acc
    ELSE ScatterFrom(AddWindow(acc, context[j],
                               PredOfWindow(pred, Len(context), j, guidance)),
                     context, pred, guidance, j + 1)

Scatter(acc, context, pred, guidance) == ScatterFrom(acc, context, pred, guidance, 1)

\* one iteration of "for context in global_context[rank::world_size]", past the checks
RunContext(acc, lat, context, t, batch_size, guidance) ==
    Scatter(acc, context,
            Unet(LatentModelInput(lat, context, guidance, t), t,
                 TextEmbeddings(batch_size, guidance),
                 PoseGuideConditions(ControlnetCond(context), batch_size, guidance)),
            guidance)

\* ------------------------------------------------------------- aggregation
\* mutant of MergeWindow: the merge adds the gathered predictions but not the counter
MergeWindowKeepsCounter(acc, c, gathered) ==
    [noise_pred |->
        [h \in DOMAIN acc.noise_pred |->
            [f \in Frames |->
                IF f \in Range(c) THEN acc.noise_pred[h][f] + gathered[h][f]
                ELSE acc.noise_pred[h][f]]],
     counter |-> acc.counter]

\* noise_pred[:, :, c] = noise_pred[:, :, c] + noise_pred_gathered[k][:, :, c];
\* counter[:, :, c] = counter[:, :, c] + 1
MergeWindow(acc, c, gathered) ==
    [noise_pred |->
        [h \in DOMAIN acc.noise_pred |->
            [f \in Frames |->
                IF f \in Range(c) THEN acc.noise_pred[h][f] + gathered[h][f]
                ELSE acc.noise_pred[h][f]]],
     counter |->
        [f \in Frames |-> IF f \in Range(c) THEN acc.counter[f] + 1 ELSE acc.counter[f]]]

\* for context in global_context[k::world_size]: for j, c in enumerate(context): ...
RECURSIVE MergeWindows(_, _, _)
MergeWindows(acc, windows, gathered) ==
    IF windows = <<>> THEN acc
    ELSE MergeWindows(MergeWindow(acc, Head(windows), gathered), Tail(windows), gathered)

\* for k in range(1, world_size): ...
RECURSIVE MergeFrom(_, _, _, _, _)
MergeFrom(acc, gc, gathered, world_size, k) ==
    IF k >= world_size THEN acc
    ELSE MergeFrom(MergeWindows(acc, Flatten(Shard(gc, k, world_size)), gathered[k]),
                   gc, gathered, world_size, k + 1)

MergeGathered(acc, gc, gathered, world_size) == MergeFrom(acc, gc, gathered, world_size, 1)

\* ------------------------------------------------------ guidance and step
\* under guidance: noise_pred_uncond, noise_pred_text = (noise_pred / counter).chunk(2);
\* noise_pred = noise_pred_uncond + guidance_scale * (noise_pred_text - noise_pred_uncond);
\* without guidance noise_pred goes to the scheduler as accumulated
PerformGuidance(acc, guidance, guidance_scale) ==
    IF guidance
    THEN [f \in Frames |->
            LET uncond == RDivInt(acc.noise_pred[1][f], acc.counter[f])
                text == RDivInt(acc.noise_pred[2][f], acc.counter[f])
            IN  RAdd[uncond, RMul[FromInt(guidance_scale), RSub[text, uncond]]]]
    ELSE [f \in Frames |-> FromInt(acc.noise_pred[1][f])]

\* self.scheduler.step(noise_pred, t, latents, **extra_step_kwargs).prev_sample
SchedulerStep(pred, t, lat) ==
    [f \in Frames |-> RSub[lat[f], RMul[FromInt(t), pred[f]]]]

\* ------------------------------------------------------------------- state
VARIABLES
    args,                 \* the arguments of the call, the same on every rank
    pc,                   \* where each rank is in __call__
    it,                   \* enumerate(timesteps): how many timesteps each rank has taken
    i,                    \* the variable i, bound by both for-loops of __call__
    latents,              \* each rank's latents
    noise_pred,           \* each rank's noise_pred
    counter,              \* each rank's counter
    global_context,       \* each rank's global_context
    queue_pos,            \* batches of global_context[rank::world_size] already run
    model_output,         \* each rank's noise_pred as handed to scheduler.step
    gather_buf,           \* tensors sent to rank 0 by dist.gather
    noise_pred_gathered,  \* rank 0's gather_list
    gathers,              \* dist.gather calls completed, per rank
    bcast_buf,            \* the tensor rank 0 sent by dist.broadcast
    bcasts,               \* dist.broadcast calls completed, per rank
    barriers,             \* dist.barrier calls entered, per rank
    writer_bank,          \* reference_control_writer holds the write pass's state
    reader_bank,          \* reference_control_reader holds state copied from the writer
    trace,                \* history: the external calls of each rank, in order
    unet_log,             \* history: what each unet call of each rank paired per entry
    origin,               \* history: who computed each rank's current latents
    post_step,            \* history: rank 0's latents after each scheduler.step
    step_index,           \* the step index each rank last handed to context_scheduler
    prologue,             \* a call of __call__ before its denoising loop
    interp,               \* a call of interpolate_latents
    inversion,            \* a call of invert
    inv_step,             \* one iteration of the loop of invert
    ref_control           \* self.reference_control_reader / _writer and their callers

\* the calls of the pipeline's other entry points
util_vars == <<prologue, interp, inversion, inv_step, ref_control>>

\* the denoising loop of __call__
call_vars == <<args, pc, it, i, latents, noise_pred, counter, global_context, queue_pos,
               model_output, gather_buf, noise_pred_gathered, gathers, bcast_buf, bcasts,
               barriers, writer_bank, reader_bank, trace, unet_log, origin, post_step,
               step_index>>

vars == <<call_vars, util_vars>>

Ranks == 0 .. (args.world_size - 1)

Guidance == UseGuidance(args)

\* the accumulator pair of rank r
Acc(r) == [noise_pred |-> noise_pred[r], counter |-> counter[r]]

\* mutant of NextContext: the rank walks global_context itself, not its slice
NextContextUnsharded(r) == global_context[r][queue_pos[r] + 1]

\* the batch rank r runs next
NextContext(r) == Shard(global_context[r], r, args.world_size)[queue_pos[r] + 1]

Event(op, step) == [op |-> op, step |-> step]

\* an entry point that is not being called
NoCall == [pc |-> "idle"]

\* the state in which every rank enters "for i, t in enumerate(timesteps)"
LoopEntry ==
    /\ pc = [r \in Ranks |-> "loop"]
    /\ it = [r \in Ranks |-> 0]
    /\ i = [r \in Ranks |-> 0]
    /\ latents = [r \in Ranks |-> InitLatents]
    /\ noise_pred = [r \in Ranks |-> ZeroNoisePred(Guidance)]
    /\ counter = [r \in Ranks |-> ZeroCounter]
    /\ global_context = [r \in Ranks |-> <<>>]
    /\ queue_pos = [r \in Ranks |-> 0]
    /\ model_output = [r \in Ranks |-> [f \in Frames |-> FromInt(0)]]
    /\ gather_buf = [r \in Ranks |-> ZeroNoisePred(Guidance)]
    /\ noise_pred_gathered = [r \in Ranks |-> ZeroNoisePred(Guidance)]
    /\ gathers = [r \in Ranks |-> 0]
    /\ bcast_buf = InitLatents
    /\ bcasts = [r \in Ranks |-> 0]
    /\ barriers = [r \in Ranks |-> 0]
    /\ writer_bank = [r \in Ranks |-> FALSE]
    /\ reader_bank = [r \in Ranks |-> FALSE]
    /\ trace = [r \in Ranks |-> <<>>]
    /\ unet_log = [r \in Ranks |-> <<>>]
    /\ origin = [r \in Ranks |-> "init"]
    /\ post_step = <<>>
    /\ step_index = [r \in Ranks |-> None]

Init ==
    /\ args \in CallArgs
    /\ LoopEntry
    /\ prologue = NoCall
    /\ interp = NoCall
    /\ inversion = NoCall
    /\ inv_step = NoCall
    /\ ref_control = NoCall

\* ------------------------------------------------------------ the loop head
\* for i, t in enumerate(timesteps): if i < num_inference_steps - num_actual: continue
SkipTimestep(r) ==
    /\ pc[r] = "loop"
    /\ it[r] < args.num_inference_steps
    /\ SkipStep(args, it[r])
    /\ it' = [it EXCEPT ![r] = @ + 1]
    /\ i' = [i EXCEPT ![r] = it[r]]
    /\ UNCHANGED <<util_vars, step_index, args, pc, latents, noise_pred, counter, global_context, queue_pos,
                   model_output, gather_buf, noise_pred_gathered, gathers, bcast_buf,
                   bcasts, barriers, writer_bank, reader_bank, trace, unet_log, origin,
                   post_step>>

\* an executed timestep up to the window loop: fresh noise_pred and counter, the
\* appearance_encoder's write pass, context_queue and global_context (whose loop
\* "for i in range(num_context_batches)" rebinds i)
BeginTimestep(r) ==
    /\ pc[r] = "loop"
    /\ it[r] < args.num_inference_steps
    /\ ~SkipStep(args, it[r])
    /\ it' = [it EXCEPT ![r] = @ + 1]
    /\ noise_pred' = [noise_pred EXCEPT ![r] = ZeroNoisePred(Guidance)]
    /\ counter' = [counter EXCEPT ![r] = ZeroCounter]
    /\ writer_bank' = [writer_bank EXCEPT ![r] = TRUE]
    /\ trace' = [trace EXCEPT ![r] = Append(@, Event("write", it[r]))]
    /\ step_index' = [step_index EXCEPT ![r] = ContextStepIndex(it[r])]
    /\ global_context' = [global_context EXCEPT
                            ![r] = GlobalContext(args.context_queue, args.context_batch_size)]
    /\ i' = [i EXCEPT ![r] = Len(global_context'[r]) - 1]
    /\ queue_pos' = [queue_pos EXCEPT ![r] = 0]
    /\ pc' = [pc EXCEPT ![r] = "windows"]
    /\ UNCHANGED <<util_vars, args, latents, model_output, gather_buf, noise_pred_gathered,
                   gathers, bcast_buf, bcasts, barriers, reader_bank, unet_log, origin,
                   post_step>>

\* ---------------------------------------------------------- the window loop
AtBatch(r) ==
    /\ pc[r] = "windows"
    /\ queue_pos[r] < Len(Shard(global_context[r], r, args.world_size))

\* reference_control_reader.update(reference_control_writer): the reader holds what the
\* writer holds
ReaderUpdated(own, writer) == writer

\* mutant of ReaderCleared: the clear leaves the reader's state in place
ReaderClearedKeeps(own) == own

\* reference_control_reader.clear()
ReaderCleared(own) == FALSE

\* the head of one iteration of "for context in global_context[rank::world_size]":
\* latent_model_input, controlnet_cond, reference_control_reader.update(...)
ReaderUpdate(r) ==
    /\ AtBatch(r)
    /\ reader_bank' = [reader_bank EXCEPT ![r] = ReaderUpdated(@, writer_bank[r])]
    /\ trace' = [trace EXCEPT ![r] = Append(@, Event("update", it[r] - 1))]
    /\ pc' = [pc EXCEPT ![r] = "unet"]
    /\ UNCHANGED <<util_vars, step_index, args, it, i, latents, noise_pred, counter,
                   global_context, queue_pos, model_output, gather_buf,
                   noise_pred_gathered, gathers, bcast_buf, bcasts, barriers, writer_bank,
                   unet_log, origin, post_step>>

\* between reader.update and the unet call
InBatch(r) == pc[r] = "unet"

\* rearrange(controlnet_cond, ..., b=context_batch_size) raises, after reader.update
RearrangeRaises(r) ==
    /\ InBatch(r)
    /\ ~RearrangeOk(ControlnetCond(NextContext(r)), args.context_batch_size)
    /\ pc' = [pc EXCEPT ![r] = "error"]
    /\ UNCHANGED <<util_vars, step_index, args, it, i, latents, noise_pred, counter,
                   global_context, queue_pos, model_output, gather_buf,
                   noise_pred_gathered, gathers, bcast_buf, bcasts, barriers, writer_bank,
                   reader_bank, trace, unet_log, origin, post_step>>

\* a batch shorter than context_batch_size reaches the unet with fewer latent entries
\* than embeddings and control entries: the external network may reject it
UnetRaises(r) ==
    /\ InBatch(r)
    /\ RearrangeOk(ControlnetCond(NextContext(r)), args.context_batch_size)
    /\ Len(NextContext(r)) < args.context_batch_size
    /\ trace' = [trace EXCEPT ![r] = Append(@, Event("unet", it[r] - 1))]
    /\ pc' = [pc EXCEPT ![r] = "error"]
    /\ UNCHANGED <<util_vars, step_index, args, it, i, latents, noise_pred, counter,
                   global_context, queue_pos, model_output, gather_buf,
                   noise_pred_gathered, gathers, bcast_buf, bcasts, barriers, writer_bank,
                   reader_bank, unet_log, origin, post_step>>

\* what the unet call of the next batch pairs, entry by entry
NextPairs(r) ==
    UnetPairs(LatentModelInput(latents[r], NextContext(r), Guidance,
                               Timestep(args, it[r] - 1)),
              TextEmbeddings(args.context_batch_size, Guidance),
              PoseGuideConditions(ControlnetCond(NextContext(r)),
                                  args.context_batch_size, Guidance))

\* pred = self.unet(...)[0] returns; reference_control_reader.clear()
UnetCalled(r) ==
    /\ InBatch(r)
    /\ RearrangeOk(ControlnetCond(NextContext(r)), args.context_batch_size)
    /\ trace' = [trace EXCEPT ![r] = Append(Append(@, Event("unet", it[r] - 1)),
                                            Event("reader_clear", it[r] - 1))]
    /\ reader_bank' = [reader_bank EXCEPT ![r] = ReaderCleared(@)]
    /\ unet_log' = [unet_log EXCEPT
                      ![r] = Append(@, [step |-> it[r] - 1,
                                        context |-> NextContext(r),
                                        pairs |-> NextPairs(r)])]

\* the unet returns and the scatter-add raises: reader.clear() has run
ScatterRaises(r) ==
    /\ UnetCalled(r)
    /\ ~ScatterOk(NextContext(r), Guidance)
    /\ pc' = [pc EXCEPT ![r] = "error"]
    /\ UNCHANGED <<util_vars, step_index, args, it, i, latents, noise_pred, counter,
                   global_context, queue_pos, model_output, gather_buf,
                   noise_pred_gathered, gathers, bcast_buf, bcasts, barriers, writer_bank,
                   origin, post_step>>

\* the rest of the iteration: the unet call, reader.clear(), the scatter-add
RunBatch(r) ==
    /\ UnetCalled(r)
    /\ ScatterOk(NextContext(r), Guidance)
    /\ LET acc == RunContext(Acc(r), latents[r], NextContext(r),
                             Timestep(args, it[r] - 1), args.context_batch_size, Guidance)
       IN  /\ noise_pred' = [noise_pred EXCEPT ![r] = acc.noise_pred]
           /\ counter' = [counter EXCEPT ![r] = acc.counter]
    /\ queue_pos' = [queue_pos EXCEPT ![r] = @ + 1]
    /\ pc' = [pc EXCEPT ![r] = "windows"]
    /\ UNCHANGED <<util_vars, step_index, args, it, i, latents, global_context,
                   model_output, gather_buf, noise_pred_gathered, gathers, bcast_buf,
                   bcasts, barriers, writer_bank, origin, post_step>>

\* mutant of AfterWindows: a rank whose slice held no batch leaves the gather out
AfterWindowsIdleSkips(dist, ran) == IF dist /\ ran > 0 THEN "gather" ELSE "guidance"

\* if is_dist_initialized: ... dist.gather(...), whatever number of batches the rank ran
AfterWindows(dist, ran) == IF dist THEN "gather" ELSE "guidance"

\* the window loop is exhausted: if is_dist_initialized: gather ...
EndWindows(r) ==
    /\ pc[r] = "windows"
    /\ queue_pos[r] = Len(Shard(global_context[r], r, args.world_size))
    /\ pc' = [pc EXCEPT ![r] = AfterWindows(args.dist, queue_pos[r])]
    /\ UNCHANGED <<util_vars, step_index, args, it, i, latents, noise_pred, counter, global_context, queue_pos,
                   model_output, gather_buf, noise_pred_gathered, gathers, bcast_buf,
                   bcasts, barriers, writer_bank, reader_bank, trace, unet_log, origin,
                   post_step>>

\* -------------------------------------------------------------- collectives
\* dist.gather(tensor=noise_pred, gather_list=[], dst=0) on a rank other than 0
GatherSend(r) ==
    /\ pc[r] = "gather"
    /\ r # 0
    /\ gather_buf' = [gather_buf EXCEPT ![r] = noise_pred[r]]
    /\ gathers' = [gathers EXCEPT ![r] = @ + 1]
    /\ trace' = [trace EXCEPT ![r] = Append(@, Event("gather", it[r] - 1))]
    /\ pc' = [pc EXCEPT ![r] = "barrier1"]
    /\ UNCHANGED <<util_vars, step_index, args, it, i, latents, noise_pred, counter, global_context, queue_pos,
                   model_output, noise_pred_gathered, bcast_buf, bcasts, barriers,
                   writer_bank, reader_bank, unet_log, origin, post_step>>

\* dist.gather(tensor=noise_pred, gather_list=noise_pred_gathered, dst=0) on rank 0:
\* returns once every rank's tensor of this gather has arrived
GatherReceive(r) ==
    /\ pc[r] = "gather"
    /\ r = 0
    /\ \A q \in Ranks \ {0} : gathers[q] > gathers[0]
    /\ noise_pred_gathered' =
          [q \in Ranks |-> IF q = 0 THEN noise_pred[0] ELSE gather_buf[q]]
    /\ gathers' = [gathers EXCEPT ![r] = @ + 1]
    /\ trace' = [trace EXCEPT ![r] = Append(@, Event("gather", it[r] - 1))]
    /\ pc' = [pc EXCEPT ![r] = "barrier1"]
    /\ UNCHANGED <<util_vars, step_index, args, it, i, latents, noise_pred, counter, global_context, queue_pos,
                   model_output, gather_buf, bcast_buf, bcasts, barriers, writer_bank,
                   reader_bank, unet_log, origin, post_step>>

BarrierStep(r) == IF pc[r] \in {"barrier3", "wait3"} THEN args.num_inference_steps
                  ELSE it[r] - 1

\* dist.barrier(): the rank enters the barrier
EnterBarrier(r) ==
    /\ pc[r] \in {"barrier1", "barrier2", "barrier3"}
    /\ barriers' = [barriers EXCEPT ![r] = @ + 1]
    /\ trace' = [trace EXCEPT ![r] = Append(@, Event("barrier", BarrierStep(r)))]
    /\ pc' = [pc EXCEPT ![r] = CASE pc[r] = "barrier1" -> "wait1"
                                 [] pc[r] = "barrier2" -> "wait2"
                                 [] pc[r] = "barrier3" -> "wait3"]
    /\ UNCHANGED <<util_vars, step_index, args, it, i, latents, noise_pred, counter, global_context, queue_pos,
                   model_output, gather_buf, noise_pred_gathered, gathers, bcast_buf,
                   bcasts, writer_bank, reader_bank, unet_log, origin, post_step>>

\* mutant of BarrierOpen: the barrier lets a rank through at once
BarrierNeverWaits(r) == TRUE

\* dist.barrier() returns on rank r once every rank has entered the same barrier
BarrierOpen(r) == \A q \in Ranks : barriers[q] >= barriers[r]

\* dist.barrier(): the rank leaves the barrier; after the first barrier of a timestep
\* rank 0 goes on to merge and every other rank straight to the guidance
LeaveBarrier(r) ==
    /\ pc[r] \in {"wait1", "wait2", "wait3"}
    /\ BarrierOpen(r)
    /\ pc' = [pc EXCEPT ![r] = CASE pc[r] = "wait1" ->
                                        (IF r = 0 THEN "merge" ELSE "guidance")
                                 [] pc[r] = "wait2" -> "clear"
                                 [] pc[r] = "wait3" -> "done"]
    /\ UNCHANGED <<util_vars, step_index, args, it, i, latents, noise_pred, counter, global_context, queue_pos,
                   model_output, gather_buf, noise_pred_gathered, gathers, bcast_buf,
                   bcasts, barriers, writer_bank, reader_bank, trace, unet_log, origin,
                   post_step>>

\* if rank == 0: for k in range(1, world_size): ... (the merge of the gathered tensors)
Merge(r) ==
    /\ pc[r] = "merge"
    /\ LET acc == MergeGathered(Acc(r), global_context[r], noise_pred_gathered,
                                args.world_size)
       IN  /\ noise_pred' = [noise_pred EXCEPT ![r] = acc.noise_pred]
           /\ counter' = [counter EXCEPT ![r] = acc.counter]
    /\ pc' = [pc EXCEPT ![r] = "guidance"]
    /\ UNCHANGED <<util_vars, step_index, args, it, i, latents, global_context, queue_pos, model_output,
                   gather_buf, noise_pred_gathered, gathers, bcast_buf, bcasts, barriers,
                   writer_bank, reader_bank, trace, unet_log, origin, post_step>>

\* ------------------------------------------------------- guidance and step
\* "# perform guidance", on every rank
GuidanceStep(r) ==
    /\ pc[r] = "guidance"
    /\ model_output' = [model_output EXCEPT
                          ![r] = PerformGuidance(Acc(r), Guidance, args.guidance_scale)]
    /\ pc' = [pc EXCEPT ![r] = "step"]
    /\ UNCHANGED <<util_vars, step_index, args, it, i, latents, noise_pred, counter, global_context, queue_pos,
                   gather_buf, noise_pred_gathered, gathers, bcast_buf, bcasts, barriers,
                   writer_bank, reader_bank, trace, unet_log, origin, post_step>>

\* mutant of AfterStep: the broadcast and its barrier are left out
AfterStepNoBroadcast(dist) == "clear"

\* if is_dist_initialized: dist.broadcast(latents, 0); dist.barrier()
AfterStep(dist) == IF dist THEN "broadcast" ELSE "clear"

\* latents = self.scheduler.step(noise_pred, t, latents, ...).prev_sample, on every rank
StepLatents(r) ==
    /\ pc[r] = "step"
    /\ latents' = [latents EXCEPT
                     ![r] = SchedulerStep(model_output[r], Timestep(args, it[r] - 1), @)]
    /\ trace' = [trace EXCEPT ![r] = Append(@, Event("step", it[r] - 1))]
    /\ origin' = [origin EXCEPT ![r] = IF r = 0 THEN "coordinator" ELSE "local"]
    /\ post_step' = IF r = 0 THEN Append(post_step, latents'[r]) ELSE post_step
    /\ pc' = [pc EXCEPT ![r] = AfterStep(args.dist)]
    /\ UNCHANGED <<util_vars, step_index, args, it, i, noise_pred, counter, global_context, queue_pos,
                   model_output, gather_buf, noise_pred_gathered, gathers, bcast_buf,
                   bcasts, barriers, writer_bank, reader_bank, unet_log>>

\* dist.broadcast(latents, 0) on rank 0: sends its latents
BroadcastSend(r) ==
    /\ pc[r] = "broadcast"
    /\ r = 0
    /\ bcast_buf' = latents[0]
    /\ bcasts' = [bcasts EXCEPT ![r] = @ + 1]
    /\ trace' = [trace EXCEPT ![r] = Append(@, Event("broadcast", it[r] - 1))]
    /\ pc' = [pc EXCEPT ![r] = "barrier2"]
    /\ UNCHANGED <<util_vars, step_index, args, it, i, latents, noise_pred, counter, global_context, queue_pos,
                   model_output, gather_buf, noise_pred_gathered, gathers, barriers,
                   writer_bank, reader_bank, unet_log, origin, post_step>>

\* mutant of Received: the broadcast fills a copy and the rank keeps its own latents
ReceivedKeepsOwn(own, sent) == own

\* the latents a rank other than 0 holds when dist.broadcast(latents, 0) returns
Received(own, sent) == sent

\* dist.broadcast(latents, 0) on another rank: overwrites its latents in place
BroadcastReceive(r) ==
    /\ pc[r] = "broadcast"
    /\ r # 0
    /\ bcasts[0] > bcasts[r]
    /\ latents' = [latents EXCEPT ![r] = Received(@, bcast_buf)]
    /\ origin' = [origin EXCEPT ![r] = IF latents'[r] = bcast_buf THEN "coordinator" ELSE @]
    /\ bcasts' = [bcasts EXCEPT ![r] = @ + 1]
    /\ trace' = [trace EXCEPT ![r] = Append(@, Event("broadcast", it[r] - 1))]
    /\ pc' = [pc EXCEPT ![r] = "barrier2"]
    /\ UNCHANGED <<util_vars, step_index, args, it, i, noise_pred, counter, global_context, queue_pos,
                   model_output, gather_buf, noise_pred_gathered, gathers, bcast_buf,
                   barriers, writer_bank, reader_bank, unet_log, post_step>>

\* mutant of WriterCleared: the clear leaves the writer's state in place
WriterClearedKeeps(own) == own

\* reference_control_writer.clear()
WriterCleared(own) == FALSE

\* reference_control_writer.clear(), the last statement of an executed timestep
ClearWriter(r) ==
    /\ pc[r] = "clear"
    /\ writer_bank' = [writer_bank EXCEPT ![r] = WriterCleared(@)]
    /\ trace' = [trace EXCEPT ![r] = Append(@, Event("clear", it[r] - 1))]
    /\ pc' = [pc EXCEPT ![r] = "loop"]
    /\ UNCHANGED <<util_vars, step_index, args, it, i, latents, noise_pred, counter, global_context, queue_pos,
                   model_output, gather_buf, noise_pred_gathered, gathers, bcast_buf,
                   bcasts, barriers, reader_bank, unet_log, origin, post_step>>

\* ---------------------------------------------------------- after the loop
\* enumerate(timesteps) is exhausted
ExitLoop(r) ==
    /\ pc[r] = "loop"
    /\ it[r] = args.num_inference_steps
    /\ pc' = [pc EXCEPT ![r] = "decode"]
    /\ UNCHANGED <<util_vars, step_index, args, it, i, latents, noise_pred, counter, global_context, queue_pos,
                   model_output, gather_buf, noise_pred_gathered, gathers, bcast_buf,
                   bcasts, barriers, writer_bank, reader_bank, trace, unet_log, origin,
                   post_step>>

\* video = self.decode_latents(latents, rank, ...); if is_dist_initialized: dist.barrier()
Decode(r) ==
    /\ pc[r] = "decode"
    /\ trace' = [trace EXCEPT ![r] = Append(@, Event("decode", args.num_inference_steps))]
    /\ pc' = [pc EXCEPT ![r] = IF args.dist THEN "barrier3" ELSE "done"]
    /\ UNCHANGED <<util_vars, step_index, args, it, i, latents, noise_pred, counter, global_context, queue_pos,
                   model_output, gather_buf, noise_pred_gathered, gathers, bcast_buf,
                   bcasts, barriers, writer_bank, reader_bank, unet_log, origin, post_step>>

Next ==
    \/ \E r \in Ranks : SkipTimestep(r)
    \/ \E r \in Ranks : BeginTimestep(r)
    \/ \E r \in Ranks : ReaderUpdate(r)
    \/ \E r \in Ranks : RearrangeRaises(r)
    \/ \E r \in Ranks : UnetRaises(r)
    \/ \E r \in Ranks : ScatterRaises(r)
    \/ \E r \in Ranks : RunBatch(r)
    \/ \E r \in Ranks : EndWindows(r)
    \/ \E r \in Ranks : GatherSend(r)
    \/ \E r \in Ranks : GatherReceive(r)
    \/ \E r \in Ranks : EnterBarrier(r)
    \/ \E r \in Ranks : LeaveBarrier(r)
    \/ \E r \in Ranks : Merge(r)
    \/ \E r \in Ranks : GuidanceStep(r)
    \/ \E r \in Ranks : StepLatents(r)
    \/ \E r \in Ranks : BroadcastSend(r)
    \/ \E r \in Ranks : BroadcastReceive(r)
    \/ \E r \in Ranks : ClearWriter(r)
    \/ \E r \in Ranks : ExitLoop(r)
    \/ \E r \in Ranks : Decode(r)

Spec == Init /\ [][Next]_vars

\* distributed calls whose windows all start at frame 0: what a rank's slice holds, and
\* so which collectives it enters, depends on the number of windows, the batch size and
\* the skipped timesteps, not on which frames a window names
ShardArgs ==
    {a \in CallArgs :
        /\ a.dist
        /\ a.guidance_scale = 2
        /\ a.num_actual_inference_steps \in {None, NumSteps - 1}
        /\ \A k \in DOMAIN a.context_queue : a.context_queue[k][1] = 0}

ShardInit ==
    /\ args \in ShardArgs
    /\ LoopEntry
    /\ prologue = NoCall
    /\ interp = NoCall
    /\ inversion = NoCall
    /\ inv_step = NoCall
    /\ ref_control = NoCall

\* every rank is a running process: a step that stays possible is eventually taken
FairSpec == ShardInit /\ [][Next]_vars /\ WF_vars(Next)

\* ------------------------------------------- __call__ before the denoising loop
\* further bounds of the call's arguments
MaxPrompts == 2
MaxVideos == 2

\* self.unet.in_channels
InChannels == 4

\* self.vae_scale_factor = 2 ** (len(self.vae.config.block_out_channels) - 1)
VaeScaleFactor == 8

\* the arguments of the denoising loop while another entry point is followed
NoLoopArgs ==
    [context_queue |-> <<Window(0, 1)>>, context_batch_size |-> 1, world_size |-> 1,
     dist |-> FALSE, do_classifier_free_guidance |-> TRUE, guidance_scale |-> 2,
     num_inference_steps |-> NumSteps, num_actual_inference_steps |-> None]

\* latents: Optional[torch.FloatTensor], by its shape (b, c, f, h, w)
LatentShapes ==
    {<<b, c, f, h, w>> : b \in 1 .. 2, c \in {InChannels, InChannels + 1},
                         f \in {NumFrames, NumFrames + 1}, h \in 1 .. 2, w \in 1 .. 2}

\* init_latents: Optional[torch.FloatTensor], by its shape ((b f), c, h, w)
InitLatentShapes ==
    {<<bf, c, h, w>> : bf \in {NumFrames, NumFrames + 1, 2 * NumFrames},
                       c \in {InChannels, InChannels + 1}, h \in 1 .. 2, w \in 1 .. 2}

\* prompt is a str (prompt_len = None) or a list of prompt_len strings;
\* video_length is the number of frames
PrologueArgs ==
    [prompt_len : {None} \cup (1 .. MaxPrompts),
     prompt_embeddings : BOOLEAN,
     num_videos_per_prompt : 1 .. MaxVideos,
     height : {8, 12, 16},
     width : {8, 12},
     latents : {<<>>} \cup LatentShapes,
     init_latents : {<<>>} \cup InitLatentShapes,
     appearance_encoder : BOOLEAN]

\* batch_size = 1; if latents is not None: batch_size = latents.shape[0];
\* if isinstance(prompt, list): batch_size = len(prompt)
BatchSize(a) ==
    IF a.prompt_len # None THEN a.prompt_len
    ELSE IF a.latents # <<>> THEN a.latents[1]
    ELSE 1

\* check_inputs: height % 8 != 0 or width % 8 != 0 raises ValueError
CheckInputsOk(a) == a.height % 8 = 0 /\ a.width % 8 = 0

\* shape = (batch_size, num_channels_latents, clip_length, height // self.vae_scale_factor,
\*          width // self.vae_scale_factor), as __call__ passes the arguments
ExpectedShape(a) ==
    <<BatchSize(a) * a.num_videos_per_prompt, InChannels, NumFrames,
      a.height \div VaeScaleFactor, a.width \div VaeScaleFactor>>

\* rearrange(init_latents, "(b f) c h w -> b c f h w", f=video_length) raises unless
\* the leading dimension is a multiple of f
RearrangeInitOk(shape) == shape[1] % NumFrames = 0

RearrangeInit(shape) == <<shape[1] \div NumFrames, shape[2], NumFrames, shape[3], shape[4]>>

\* prepare_latents: if latents.shape != shape: raise ValueError
PrepareLatentsOk(a) == a.latents = <<>> \/ a.latents = ExpectedShape(a)

PrologueStart(a) ==
    [pc |-> "encode", call |-> a, invoked |-> <<>>, error |-> "", latents_shape |-> <<>>]

\* lines 627-686: defaults, batch_size, the guidance flag, then the prompt's encoding
\* (self._encode_prompt calls self.text_encoder) unless prompt_embeddings is given;
\* "# self.check_inputs(prompt, height, width, callback_steps)" is a comment
EncodePrompt ==
    /\ prologue.pc = "encode"
    /\ prologue' = [prologue EXCEPT
                      !.invoked = IF prologue.call.prompt_embeddings THEN @
                                  ELSE Append(@, "text_encoder"),
                      !.pc = "assert"]
    /\ UNCHANGED <<inv_step, ref_control, call_vars, interp, inversion>>

\* assert num_videos_per_prompt == 1; assert batch_size == 1
AssertSupported ==
    /\ prologue.pc = "assert"
    /\ prologue' =
          IF prologue.call.num_videos_per_prompt = 1 /\ BatchSize(prologue.call) = 1
          THEN [prologue EXCEPT !.pc = "condition"]
          ELSE [prologue EXCEPT !.pc = "error", !.error = "AssertionError"]
    /\ UNCHANGED <<inv_step, ref_control, call_vars, interp, inversion>>

\* control = self.prepare_condition(..., dtype=appearance_encoder.dtype, ...):
\* None has no attribute dtype
PrepareCondition ==
    /\ prologue.pc = "condition"
    /\ prologue' =
          IF prologue.call.appearance_encoder
          THEN [prologue EXCEPT !.pc = "latents"]
          ELSE [prologue EXCEPT !.pc = "error", !.error = "AttributeError"]
    /\ UNCHANGED <<inv_step, ref_control, call_vars, interp, inversion>>

\* "# Prepare latent variables": init_latents is rearranged and taken as it is,
\* otherwise prepare_latents compares the shape of latents, or draws noise
PrepareLatents ==
    /\ prologue.pc = "latents"
    /\ LET a == prologue.call
       IN  prologue' =
              IF a.init_latents # <<>>
              THEN IF RearrangeInitOk(a.init_latents)
                   THEN [prologue EXCEPT !.pc = "source",
                                         !.latents_shape = RearrangeInit(a.init_latents)]
                   ELSE [prologue EXCEPT !.pc = "error", !.error = "EinopsError"]
              ELSE IF PrepareLatentsOk(a)
                   THEN [prologue EXCEPT !.pc = "source", !.latents_shape = ExpectedShape(a)]
                   ELSE [prologue EXCEPT !.pc = "error", !.error = "ValueError"]
    /\ UNCHANGED <<inv_step, ref_control, call_vars, interp, inversion>>

\* ref_image_latents = self.vae.encode(source_image)[...]; then the denoising loop
EncodeSource ==
    /\ prologue.pc = "source"
    /\ prologue' = [prologue EXCEPT !.invoked = Append(@, "vae"), !.pc = "loop"]
    /\ UNCHANGED <<inv_step, ref_control, call_vars, interp, inversion>>

PrologueInit ==
    /\ args = NoLoopArgs
    /\ LoopEntry
    /\ prologue \in {PrologueStart(a) : a \in PrologueArgs}
    /\ interp = NoCall
    /\ inversion = NoCall
    /\ inv_step = NoCall
    /\ ref_control = NoCall

PrologueNext ==
    \/ EncodePrompt
    \/ AssertSupported
    \/ PrepareCondition
    \/ PrepareLatents
    \/ EncodeSource

PrologueSpec == PrologueInit /\ [][PrologueNext]_vars

\* ------------------------------------------------------- interpolate_latents
MaxInterpFrames == 3
MaxFactor == 3

\* latents along dim 2: a non-empty sequence of frames, each named by a positive number
InterpLatents ==
    UNION {[1 .. n -> 1 .. MaxInterpFrames] : n \in 1 .. MaxInterpFrames}

\* torch.zeros(...): the value of a frame of new_latents that nothing has written
ZeroFrame == 0

\* get_tensor_interpolation_method()(v0, v1, f): the external blend, by its arguments
Interpolate(v0, v1, f) == [v0 |-> v0, v1 |-> v1, f |-> f]

\* mutant of Rate: the slice drops the last fraction instead of the first
RateDropsLast(k) == [j \in 1 .. (k - 1) |-> Rat[j - 1, k]]

\* rate = [i / interpolation_factor for i in range(interpolation_factor)][1:]
Rate(k) == [j \in 1 .. (k - 1) |-> Rat[j, k]]

\* the length of dim 2 of new_latents
NewLength(frames, k) == (frames - 1) * k + 1

InterpStart(l, k) ==
    [pc |-> "entry", latents |-> l, interpolation_factor |-> k, new_latents |-> <<>>,
     new_index |-> 0, i0 |-> 0, rate_pos |-> 0, v0 |-> None, v1 |-> None,
     result |-> <<>>, error |-> ""]

\* if interpolation_factor < 2: return latents
InterpReturnInput ==
    /\ interp.pc = "entry"
    /\ interp.interpolation_factor < 2
    /\ interp' = [interp EXCEPT !.result = interp.latents, !.pc = "done"]
    /\ UNCHANGED <<inv_step, ref_control, call_vars, prologue, inversion>>

\* new_latents = torch.zeros(...); new_index = 0; v0 = None; v1 = None
InterpAllocate ==
    /\ interp.pc = "entry"
    /\ interp.interpolation_factor >= 2
    /\ interp' = [interp EXCEPT
                    !.new_latents = [k \in 1 .. NewLength(Len(interp.latents),
                                                          interp.interpolation_factor) |->
                                        ZeroFrame],
                    !.pc = "pairs"]
    /\ UNCHANGED <<inv_step, ref_control, call_vars, prologue, inversion>>

\* for i0, i1 in zip(range(org_video_length), range(org_video_length)[1:]):
\*     v0 = latents[:, :, i0]; v1 = latents[:, :, i1]; new_latents[:, :, new_index] = v0
InterpPair ==
    /\ interp.pc = "pairs"
    /\ interp.i0 + 1 < Len(interp.latents)
    /\ interp' = [interp EXCEPT
                    !.v0 = interp.latents[interp.i0 + 1],
                    !.v1 = interp.latents[interp.i0 + 2],
                    !.new_latents[interp.new_index + 1] = interp.latents[interp.i0 + 1],
                    !.new_index = @ + 1,
                    !.rate_pos = 0,
                    !.pc = "rate"]
    /\ UNCHANGED <<inv_step, ref_control, call_vars, prologue, inversion>>

\* for f in rate: new_latents[:, :, new_index] = interpolation(v0, v1, f); new_index += 1
InterpInsert ==
    /\ interp.pc = "rate"
    /\ interp.rate_pos < Len(Rate(interp.interpolation_factor))
    /\ interp' = [interp EXCEPT
                    !.new_latents[interp.new_index + 1] =
                        Interpolate(interp.v0, interp.v1,
                                    Rate(interp.interpolation_factor)[interp.rate_pos + 1]),
                    !.new_index = @ + 1,
                    !.rate_pos = @ + 1]
    /\ UNCHANGED <<inv_step, ref_control, call_vars, prologue, inversion>>

\* rate is exhausted: the next pair
InterpNextPair ==
    /\ interp.pc = "rate"
    /\ interp.rate_pos = Len(Rate(interp.interpolation_factor))
    /\ interp' = [interp EXCEPT !.i0 = @ + 1, !.pc = "pairs"]
    /\ UNCHANGED <<inv_step, ref_control, call_vars, prologue, inversion>>

\* new_latents[:, :, new_index] = v1; new_index += 1; return new_latents.  With a
\* single input frame the loop body never ran and v1 is None: the assignment raises
InterpLast ==
    /\ interp.pc = "pairs"
    /\ interp.i0 + 1 >= Len(interp.latents)
    /\ interp' =
          IF interp.v1 = None
          THEN [interp EXCEPT !.pc = "error", !.error = "TypeError"]
          ELSE [interp EXCEPT
                  !.new_latents[interp.new_index + 1] = interp.v1,
                  !.new_index = @ + 1,
                  !.result = [interp.new_latents EXCEPT ![interp.new_index + 1] = interp.v1],
                  !.pc = "done"]
    /\ UNCHANGED <<inv_step, ref_control, call_vars, prologue, inversion>>

InterpInit ==
    /\ args = NoLoopArgs
    /\ LoopEntry
    /\ prologue = NoCall
    /\ interp \in {InterpStart(l, k) : l \in InterpLatents, k \in 0 .. MaxFactor}
    /\ inversion = NoCall
    /\ inv_step = NoCall
    /\ ref_control = NoCall

InterpNext ==
    \/ InterpReturnInput
    \/ InterpAllocate
    \/ InterpPair
    \/ InterpInsert
    \/ InterpNextPair
    \/ InterpLast

InterpSpec == InterpInit /\ [][InterpNext]_vars

\* -------------------------------------------------------------------- invert
MaxImages == 2

\* def images2latents(self, images, dtype): the parameters after self, none defaulted
Images2LatentsParams == <<"images", "dtype">>

\* latents = self.images2latents(image): the arguments invert passes
Images2LatentsPassed == <<"image">>

\* a call binds when every parameter without a default receives an argument
CallBinds(params, passed) == Len(passed) = Len(params)

\* image by its shape[0]; prompt a str (prompt_len = None) or a list of prompt_len
InvertArgs ==
    [image_frames : 1 .. MaxImages,
     prompt_len : {None} \cup (1 .. MaxPrompts),
     num_inference_steps : 1 .. NumSteps,
     num_actual_inference_steps : {None} \cup (0 .. (NumSteps + 1)),
     return_intermediates : BOOLEAN]

InvertStart(a) ==
    [pc |-> "entry", call |-> a, image_frames |-> a.image_frames,
     prompt_len |-> a.prompt_len, invoked |-> <<>>, latents_list |-> <<>>, steps |-> 0,
     error |-> ""]

\* batch_size = image.shape[0]; a list prompt expands a single image to len(prompt)
\* frames, a str prompt is repeated batch_size times when batch_size > 1
InvertExpand ==
    /\ inversion.pc = "entry"
    /\ inversion' =
          [inversion EXCEPT
              !.image_frames = IF inversion.prompt_len # None /\ @ = 1
                               THEN inversion.prompt_len ELSE @,
              !.prompt_len = IF inversion.prompt_len = None /\ inversion.image_frames > 1
                             THEN inversion.image_frames ELSE @,
              !.pc = "text"]
    /\ UNCHANGED <<inv_step, ref_control, call_vars, prologue, interp>>

\* text_input = self.tokenizer(...); text_embeddings = self.text_encoder(...)[0]
InvertEncodeText ==
    /\ inversion.pc = "text"
    /\ inversion' = [inversion EXCEPT !.invoked = Append(@, "text_encoder"),
                                      !.pc = "latents"]
    /\ UNCHANGED <<inv_step, ref_control, call_vars, prologue, interp>>

\* latents = self.images2latents(image): images2latents takes (images, dtype) and the
\* call passes image alone, so the call raises TypeError and invert ends here
InvertImages2Latents ==
    /\ inversion.pc = "latents"
    /\ inversion' =
          IF CallBinds(Images2LatentsParams, Images2LatentsPassed)
          THEN [inversion EXCEPT !.invoked = Append(@, "vae"),
                                 !.latents_list = <<"encoded">>,
                                 !.pc = "loop"]
          ELSE [inversion EXCEPT !.pc = "error", !.error = "TypeError"]
    /\ UNCHANGED <<inv_step, ref_control, call_vars, prologue, interp>>

InvertInit ==
    /\ args = NoLoopArgs
    /\ LoopEntry
    /\ prologue = NoCall
    /\ interp = NoCall
    /\ inversion \in {InvertStart(a) : a \in InvertArgs}
    /\ inv_step = NoCall
    /\ ref_control = NoCall

InvertNext ==
    \/ InvertExpand
    \/ InvertEncodeText
    \/ InvertImages2Latents

InvertSpec == InvertInit /\ [][InvertNext]_vars

\* ------------------------------------------- one inversion step of invert
MaxTrainSteps == 8

\* min(..., 999) in next_step
LastAlphaIndex == 999

\* __init__ sets the scheduler's steps_offset to 1: new_config["steps_offset"] = 1
StepsOffset == 1

\* self.scheduler.config.num_train_timesteps // self.scheduler.num_inference_steps
StepRatio(c) == c.num_train_timesteps \div c.num_inference_steps

\* reversed(self.scheduler.timesteps): the schedule the scheduler sets for
\* num_inference_steps steps, from the least noisy timestep up
ReversedTimestep(c, k) == k * StepRatio(c) + StepsOffset

\* the scheduler's configuration, the loop's position i, num_actual_inference_steps
InvStepArgs ==
    {c \in [num_train_timesteps : NumSteps .. MaxTrainSteps,
            num_inference_steps : 1 .. NumSteps,
            i : 0 .. (NumSteps - 1),
            num_actual_inference_steps : {None} \cup (0 .. NumSteps)] :
        c.i < c.num_inference_steps}

InvStepStart(c) ==
    [pc |-> "head", call |-> c, t |-> ReversedTimestep(c, c.i), unet_timestep |-> None,
     alpha_prod_t |-> <<>>, alpha_prod_t_next |-> <<>>, appended |-> 0]

\* self.scheduler.alphas_cumprod[timestep] if timestep >= 0
\* else self.scheduler.final_alpha_cumprod
AlphaProd(timestep) ==
    IF timestep >= 0 THEN <<"alphas_cumprod", timestep>> ELSE <<"final_alpha_cumprod">>

\* if num_actual_inference_steps is not None and i >= num_actual_inference_steps: continue
InvStepSkip ==
    /\ inv_step.pc = "head"
    /\ inv_step.call.num_actual_inference_steps # None
    /\ inv_step.call.i >= inv_step.call.num_actual_inference_steps
    /\ inv_step' = [inv_step EXCEPT !.pc = "done"]
    /\ UNCHANGED <<call_vars, prologue, interp, inversion, ref_control>>

\* noise_pred = self.unet(model_inputs, t, encoder_hidden_states=text_embeddings).sample
InvStepUnet ==
    /\ inv_step.pc = "head"
    /\ \/ inv_step.call.num_actual_inference_steps = None
       \/ inv_step.call.i < inv_step.call.num_actual_inference_steps
    /\ inv_step' = [inv_step EXCEPT !.unet_timestep = inv_step.t, !.pc = "next_step"]
    /\ UNCHANGED <<call_vars, prologue, interp, inversion, ref_control>>

\* latents, pred_x0 = self.next_step(noise_pred, t, latents):
\*     next_step = timestep; timestep = min(timestep - ratio, 999)
\*     alpha_prod_t = alphas_cumprod[timestep] if timestep >= 0 else final_alpha_cumprod
\*     alpha_prod_t_next = alphas_cumprod[next_step]
\* then latents_list.append(latents)
InvStepNextStep ==
    /\ inv_step.pc = "next_step"
    /\ LET next_step == inv_step.t
           timestep == Min(inv_step.t - StepRatio(inv_step.call), LastAlphaIndex)
       IN  inv_step' = [inv_step EXCEPT
                          !.alpha_prod_t = AlphaProd(timestep),
                          !.alpha_prod_t_next = <<"alphas_cumprod", next_step>>,
                          !.appended = @ + 1,
                          !.pc = "done"]
    /\ UNCHANGED <<call_vars, prologue, interp, inversion, ref_control>>

InvStepInit ==
    /\ args = NoLoopArgs
    /\ LoopEntry
    /\ prologue = NoCall
    /\ interp = NoCall
    /\ inversion = NoCall
    /\ inv_step \in {InvStepStart(c) : c \in InvStepArgs}
    /\ ref_control = NoCall

InvStepNext ==
    \/ InvStepSkip
    \/ InvStepUnet
    \/ InvStepNextStep

InvStepSpec == InvStepInit /\ [][InvStepNext]_vars

\* --------------------------------------- train and clear_reference_control
MaxCalls == 4

\* a pipeline after __init__: neither attribute exists ("unset"); an attribute that
\* exists is None or a ReferenceAttentionControl whose state is "empty" or "populated"
NewPipeline == [pc |-> "ready", reader |-> "unset", writer |-> "unset", log |-> <<>>]

\* hasattr(self, "reference_control_reader")
HasReader(p) == p.reader # "unset"

Called(op, outcome) == [op |-> op, outcome |-> outcome]

\* train(...): with an appearance_encoder the two controls are created and assigned
\* (lines 1002-1006) before "assert num_videos_per_prompt == 1"; then the encoder's
\* pass fills the writer and reader.update(writer) the reader; train clears neither
Train(appearance_encoder, num_videos_per_prompt) ==
    /\ ref_control.pc = "ready"
    /\ Len(ref_control.log) < MaxCalls
    /\ LET created == IF appearance_encoder
                      THEN [ref_control EXCEPT !.reader = "empty", !.writer = "empty"]
                      ELSE ref_control
       IN  ref_control' =
              IF num_videos_per_prompt # 1
              THEN [created EXCEPT !.log = Append(@, Called("train", "AssertionError"))]
              ELSE IF appearance_encoder
              THEN [created EXCEPT !.reader = "populated", !.writer = "populated",
                                   !.log = Append(@, Called("train", "returned"))]
              ELSE [created EXCEPT !.log = Append(@, Called("train", "returned"))]
    /\ UNCHANGED <<call_vars, prologue, interp, inversion, inv_step>>

\* clear_reference_control: if hasattr(self, "reference_control_reader"):
\*     self.reference_control_reader.clear(); self.reference_control_writer.clear()
\*     self.reference_control_reader = None; self.reference_control_writer = None
\* where None has no clear()
ClearedControls(p) ==
    IF HasReader(p)
    THEN IF p.reader = "None"
         THEN [p EXCEPT !.log = Append(@, Called("clear", "AttributeError"))]
         ELSE [p EXCEPT !.reader = "None", !.writer = "None",
                        !.log = Append(@, Called("clear", "returned"))]
    ELSE [p EXCEPT !.log = Append(@, Called("clear", "returned"))]

ClearReferenceControl ==
    /\ ref_control.pc = "ready"
    /\ Len(ref_control.log) < MaxCalls
    /\ ref_control' = ClearedControls(ref_control)
    /\ UNCHANGED <<call_vars, prologue, interp, inversion, inv_step>>

ControlInit ==
    /\ args = NoLoopArgs
    /\ LoopEntry
    /\ prologue = NoCall
    /\ interp = NoCall
    /\ inversion = NoCall
    /\ inv_step = NoCall
    /\ ref_control = NewPipeline

ControlNext ==
    \/ \E enc \in BOOLEAN : \E n \in 1 .. MaxVideos : Train(enc, n)
    \/ ClearReferenceControl

ControlSpec == ControlInit /\ [][ControlNext]_vars

\* ==================================================================== claims
\* a single rank (world_size = 1) running every batch of the timestep
RECURSIVE RunContexts(_, _, _, _)
RunContexts(acc, lat, batches, t) ==
    IF batches = <<>> THEN acc
    ELSE RunContexts(RunContext(acc, lat, Head(batches), t, args.context_batch_size,
                                Guidance),
                     lat, Tail(batches), t)

SingleRank(lat, t) ==
    RunContexts([noise_pred |-> ZeroNoisePred(Guidance), counter |-> ZeroCounter], lat,
                GlobalContext(args.context_queue, args.context_batch_size), t)

\* the windows of the timestep that contain frame f
Covering(f) ==
    {k \in DOMAIN args.context_queue : f \in Range(args.context_queue[k])}

\* C1: once rank 0 has merged the gathered tensors of a timestep, its prediction sum
\* and its counter equal those a single rank running all the windows of the timestep
\* would have computed.
C1_MergedEqualsSingleRank ==
    (args.dist /\ pc[0] = "guidance") =>
        Acc(0) = SingleRank(latents[0], Timestep(args, it[0] - 1))

\* the mean of the accumulated predictions of frame f on rank r, guidance applied
MeanPrediction(r, f) ==
    IF Guidance
    THEN LET uncond == Rat[noise_pred[r][1][f], counter[r][f]]
             text == Rat[noise_pred[r][2][f], counter[r][f]]
         IN  RAdd[uncond, RMul[FromInt(args.guidance_scale), RSub[text, uncond]]]
    ELSE Rat[noise_pred[r][1][f], counter[r][f]]

\* C2: the prediction handed to scheduler.step is, for every frame, the accumulated
\* sum divided by the frame's counter, with guidance (division first, then the
\* extrapolation) and without.
C2_StepInputIsMean ==
    \A r \in Ranks :
        pc[r] = "step" =>
            \A f \in Frames : counter[r][f] > 0 => model_output[r][f] = MeanPrediction(r, f)

\* C3: the accumulators start every executed timestep zeroed, and where the
\* coordinator divides, counter[f] is the number of windows of the timestep, over all
\* ranks, that contain f.
C3_CounterCountsWindows ==
    /\ \A r \in Ranks :
          (pc[r] = "windows" /\ queue_pos[r] = 0) =>
              /\ counter[r] = [f \in Frames |-> 0]
              /\ \A h \in DOMAIN noise_pred[r] : noise_pred[r][h] = [f \in Frames |-> 0]
    /\ pc[0] = "guidance" =>
          \A f \in Frames : counter[0][f] = Cardinality(Covering(f))

\* C3's case: the second executed timestep of a two-rank run whose windows overlap on
\* one frame and not on another, at the coordinator's division
C3_Witness ==
    /\ args.world_size = 2
    /\ pc[0] = "guidance"
    /\ it[0] = 2
    /\ Len(post_step) = 1
    /\ \E f \in Frames : counter[0][f] = 2
    /\ \E f \in Frames : counter[0][f] = 1

\* C4: a frame's counter is never 0 where the sum is divided: no rank ever holds a
\* prediction or a latent that came out of a division by a zero counter.
C4_NoZeroCounterDivision ==
    \A r \in Ranks :
        \A f \in Frames : IsFinite(model_output[r][f]) /\ IsFinite(latents[r][f])

\* C5: under guidance, every entry of the first half of the batch handed to the unet
\* is paired with the unconditional embedding, every entry of the second half with the
\* conditional one, and entry k of each half is window k of the batch.
C5_HalvesPairedWithEmbeddings ==
    Guidance =>
        \A r \in Ranks :
            \A c \in DOMAIN unet_log[r] :
                LET call == unet_log[r][c]
                    n == Len(call.context)
                IN  \A e \in DOMAIN call.pairs :
                        /\ call.pairs[e].emb = (IF e <= n THEN "uncond" ELSE "cond")
                        /\ call.pairs[e].frames = call.context[((e - 1) % n) + 1]

\* the batches rank r has handed to the unet in the timestep at position step
RanBatches(r, step) ==
    LET InStep(call) == call.step = step
        calls == SelectSeq(unet_log[r], InStep)
    IN  [k \in DOMAIN calls |-> calls[k].context]

\* the batch at position b (from 0) of the window list cut into context_batch_size's
BatchAt(b) ==
    LET size == args.context_batch_size
        last == Min((b + 1) * size, Len(args.context_queue))
    IN  [j \in 1 .. (last - b * size) |-> args.context_queue[b * size + j]]

NumBatches == CeilDiv(Len(args.context_queue), args.context_batch_size)

PastWindows == {"gather", "barrier1", "wait1", "merge", "guidance", "step", "broadcast",
                "barrier2", "wait2", "clear"}

RECURSIVE WindowsRan(_)
WindowsRan(r) ==
    IF r < 0 THEN 0
    ELSE Len(Flatten(RanBatches(r, it[r] - 1))) + WindowsRan(r - 1)

\* C6: rank r runs exactly the batches at positions r, r + world_size, ... of the
\* window list cut in order into batches of context_batch_size windows; over all the
\* ranks every window is run once.
C6_ShardsPartitionBatches ==
    /\ \A r \in Ranks :
          pc[r] \in PastWindows =>
              LET ran == RanBatches(r, it[r] - 1)
                  mine == {b \in 0 .. (NumBatches - 1) : b % args.world_size = r}
              IN  /\ Len(ran) = Cardinality(mine)
                  /\ \A k \in DOMAIN ran : ran[k] = BatchAt(r + (k - 1) * args.world_size)
    /\ (\A r \in Ranks : pc[r] \in PastWindows /\ it[r] = it[0]) =>
          WindowsRan(args.world_size - 1) = Len(args.context_queue)

\* C6's case: two ranks, three windows in two batches, the last one short, all run
C6_Witness ==
    /\ args.world_size = 2
    /\ args.context_batch_size = 2
    /\ NumBatches = 2
    /\ Len(args.context_queue) = 3
    /\ \A r \in Ranks : pc[r] = "wait1"

PreStep == {"loop", "windows", "unet", "gather", "barrier1", "wait1", "merge", "guidance", "step",
            "decode", "barrier3", "wait3", "done"}

\* C7: in a distributed run, from the return of a timestep's broadcast on, a rank's
\* latents are the latents rank 0 held after its scheduler.step of that timestep, so
\* the ranks enter every later timestep and the decode with identical latents.
C7_RanksHoldCoordinatorLatent ==
    args.dist =>
        /\ \A r \in Ranks :
              (bcasts[r] > 0 /\ pc[r] \in PreStep \cup {"barrier2", "wait2", "clear"}) =>
                  /\ bcasts[r] <= Len(post_step)
                  /\ latents[r] = post_step[bcasts[r]]
        /\ \A r, q \in Ranks :
              (it[r] = it[q] /\ pc[r] \in PreStep /\ pc[q] \in PreStep) =>
                  latents[r] = latents[q]

\* C7's case: rank 1 reaches the decode after two broadcasts that replaced latents it
\* had stepped on its own
C7_Witness ==
    /\ args.world_size = 2
    /\ pc[1] = "decode"
    /\ bcasts[1] = 2
    /\ latents[1] = post_step[2]
    /\ latents[1] # InitLatents

\* the collectives of rank r, in order
Collectives(r) ==
    LET IsCollective(e) == e.op \in {"gather", "barrier", "broadcast"}
    IN  SelectSeq(trace[r], IsCollective)

\* the position of the first executed timestep
FirstExecuted == args.num_inference_steps - Min(NumActual(args), args.num_inference_steps)

\* C8: in a distributed run every executed timestep is gather, barrier, broadcast,
\* barrier, in that order; no rank is past the first barrier of a timestep before every
\* rank has entered that timestep's gather, and no rank is past the second before every
\* rank has received that timestep's broadcast.
C8_BarriersOrderTimesteps ==
    args.dist =>
        /\ \A r \in Ranks :
              \A k \in DOMAIN Collectives(r) :
                  LET e == Collectives(r)[k]
                      step == FirstExecuted + ((k - 1) \div 4)
                  IN  IF step < args.num_inference_steps
                      THEN /\ e.step = step
                           /\ e.op = <<"gather", "barrier", "broadcast", "barrier">>[((k - 1) % 4) + 1]
                      ELSE e = Event("barrier", args.num_inference_steps)
        /\ \A r, q \in Ranks :
              pc[r] \in {"merge", "guidance", "step", "broadcast"} =>
                  gathers[q] >= it[r] - FirstExecuted
        /\ \A r, q \in Ranks :
              (pc[r] \in {"clear", "loop", "windows", "decode"} /\ it[r] > FirstExecuted) =>
                  bcasts[q] >= bcasts[r]

\* C8's case: both ranks of a two-rank run return after two executed timesteps
C8_Witness ==
    /\ args.world_size = 2
    /\ \A r \in Ranks : pc[r] = "done" /\ Len(Collectives(r)) = 9

\* C9 as stated: in a distributed run only rank 0 runs scheduler.step; no other rank
\* reads its latents between the barrier after the gather and the end of the broadcast.
C9_OnlyCoordinatorSteps ==
    \A r \in Ranks \ {0} :
        \A k \in DOMAIN trace[r] : trace[r][k].op # "step"

\* C9, amended: every rank runs scheduler.step on its own latents, but latents a rank
\* other than 0 stepped itself exist only until its broadcast returns, so they never
\* enter a unet call or the decode; what is broadcast is always rank 0's post-step
\* latents.
C9_LocalStepNeverConsumed ==
    args.dist =>
        /\ \A r \in Ranks : origin[r] = "local" => pc[r] = "broadcast"
        /\ bcasts[0] > 0 => bcast_buf = post_step[bcasts[0]]

\* C9's case: rank 1 has stepped its own latents and the broadcast has replaced them
C9_Witness ==
    /\ args.world_size = 2
    /\ pc[1] = "barrier2"
    /\ origin[1] = "coordinator"
    /\ \E k \in DOMAIN trace[1] : trace[1][k].op = "step"

\* the positions of the timesteps rank r has executed, in order
Executed(r) ==
    LET IsWrite(e) == e.op = "write"
        writes == SelectSeq(trace[r], IsWrite)
    IN  [k \in DOMAIN writes |-> writes[k].step]

\* C10: exactly the last min(num_actual_inference_steps, num_inference_steps)
\* timesteps are executed, in schedule order; a skipped timestep leaves the latents
\* alone, creates no accumulator and calls no write pass, unet, scheduler.step or
\* collective.
C10_PartialInference ==
    \A r \in Ranks :
        /\ \A k \in DOMAIN Executed(r) : Executed(r)[k] = FirstExecuted + k - 1
        /\ pc[r] \in {"decode", "barrier3", "wait3", "done"} =>
              Len(Executed(r)) = Min(NumActual(args), args.num_inference_steps)
        /\ \A k \in DOMAIN trace[r] : trace[r][k].step >= FirstExecuted
        /\ it[r] <= FirstExecuted =>
              /\ pc[r] \in {"loop", "decode", "barrier3", "wait3", "done"}
              /\ latents[r] = InitLatents
              /\ \A k \in DOMAIN trace[r] : trace[r][k].step = args.num_inference_steps
              /\ unet_log[r] = <<>>
              /\ global_context[r] = <<>>
              /\ gathers[r] = 0 /\ bcasts[r] = 0
              /\ ~writer_bank[r]

\* C10's case: one of two timesteps is skipped and the other executed, on two ranks
C10_Witness ==
    /\ args.world_size = 2
    /\ args.num_actual_inference_steps = 1
    /\ \A r \in Ranks : pc[r] = "done" /\ Executed(r) = <<args.num_inference_steps - 1>>

\* the number of events op of rank r in the timestep at position step
Count(r, op, step) ==
    Cardinality({k \in DOMAIN trace[r] : trace[r][k] = Event(op, step)})

\* inside the body of an executed timestep
InTimestep == {"windows", "unet", "gather", "barrier1", "wait1", "merge", "guidance",
               "step", "broadcast", "barrier2", "wait2", "clear"}

\* C11: in every executed timestep the write pass runs once, before the timestep's
\* first unet call, and the writer is cleared once, after the timestep's scheduler.step
\* (and broadcast); the writer's state is empty between two timesteps and after the
\* return.
C11_WriteOnceClearOnce ==
    \A r \in Ranks :
        /\ \A k \in DOMAIN trace[r] :
              LET e == trace[r][k]
                  Before(op) == \E j \in 1 .. (k - 1) : trace[r][j] = Event(op, e.step)
              IN  /\ e.op = "unet" => Before("write")
                  /\ e.op = "write" => ~Before("write")
                  /\ e.op = "clear" =>
                        /\ Before("write") /\ Before("step") /\ ~Before("clear")
                        /\ args.dist => Before("broadcast")
        /\ \A step \in FirstExecuted .. (it[r] - 1) :
              (step < it[r] - 1 \/ pc[r] \in {"loop", "decode", "barrier3", "wait3", "done"}) =>
                  Count(r, "write", step) = 1 /\ Count(r, "clear", step) = 1
        /\ pc[r] \in InTimestep => writer_bank[r]
        /\ pc[r] \in {"loop", "decode", "barrier3", "wait3", "done"} => ~writer_bank[r]

\* C11's case: both ranks of a two-rank run have returned after two executed timesteps,
\* each with several unet calls
C11_Witness ==
    /\ args.world_size = 2
    /\ \A r \in Ranks :
          /\ pc[r] = "done"
          /\ Count(r, "write", 0) = 1 /\ Count(r, "clear", 1) = 1
          /\ Count(r, "unet", 1) = 2
          /\ ~writer_bank[r]

\* C12: every unet call comes right after a reader update and is followed at once by
\* the reader's clear; the reader holds state only from an update to the clear after
\* the unet call that follows it, and never while the writer is empty.
C12_ReaderBracketsUnet ==
    \A r \in Ranks :
        /\ \A k \in DOMAIN trace[r] :
              LET e == trace[r][k]
              IN  /\ e.op = "unet" => (k > 1 /\ trace[r][k - 1] = Event("update", e.step))
                  /\ e.op = "reader_clear" =>
                        (k > 1 /\ trace[r][k - 1] = Event("unet", e.step))
                  /\ (e.op = "unet" /\ k < Len(trace[r])) =>
                        trace[r][k + 1] = Event("reader_clear", e.step)
                  /\ (e.op = "update" /\ k < Len(trace[r])) =>
                        trace[r][k + 1] = Event("unet", e.step)
        /\ reader_bank[r] =>
              /\ writer_bank[r]
              /\ trace[r] # <<>>
              /\ trace[r][Len(trace[r])].op \in {"update", "unet"}
        /\ pc[r] = "unet" => reader_bank[r]
        /\ pc[r] \in {"windows", "gather", "guidance", "step", "clear", "loop", "done"} =>
              ~reader_bank[r]

\* C12's case: rank 1 of a two-rank run has updated the reader for its second batch of
\* the second timestep, after the clears of the batches before
C12_Witness ==
    /\ args.world_size = 2
    /\ pc[1] = "unet"
    /\ reader_bank[1]
    /\ queue_pos[1] = 1
    /\ it[1] = 2
    /\ Count(1, "reader_clear", 0) = 2

\* C13: in every executed timestep the context scheduler is called with the position
\* of that timestep in the schedule as its step index.
C13_SchedulerGetsCurrentStep ==
    \A r \in Ranks : pc[r] \in InTimestep => step_index[r] = it[r] - 1

\* C14: the ranks that are in the same timestep hold the same batch list, and the
\* slice of rank k that rank 0 walks in its merge is the list of batches rank k has
\* handed to the unet in that timestep.
C14_RanksAgreeOnPartition ==
    /\ \A r, q \in Ranks :
          (pc[r] \in InTimestep /\ pc[q] \in InTimestep /\ it[r] = it[q]) =>
              global_context[r] = global_context[q]
    /\ pc[0] = "merge" =>
          \A k \in Ranks \ {0} :
              Shard(global_context[0], k, args.world_size) = RanBatches(k, it[0] - 1)

\* C14's case: rank 0 merges in the second timestep what rank 1 gathered from two
\* batches of its own
C14_Witness ==
    /\ args.world_size = 2
    /\ pc[0] = "merge"
    /\ it[0] = 2
    /\ Len(global_context[0]) = 4
    /\ Len(RanBatches(1, 1)) = 2
    /\ RanBatches(1, 1)[1] # RanBatches(0, 1)[1]

\* C15: a call with num_videos_per_prompt other than 1, or with a batch size other
\* than 1, ends in an AssertionError before any model has been invoked, and never
\* reaches the denoising loop.
C15_UnsupportedBatchFailsFast ==
    (prologue.pc # "idle"
     /\ (prologue.call.num_videos_per_prompt # 1 \/ BatchSize(prologue.call) # 1)) =>
        /\ prologue.invoked = <<>>
        /\ prologue.pc # "loop"
        /\ prologue.error \in {"", "AssertionError"}

\* C16: a call whose height or width is not a multiple of the VAE's downsampling
\* factor ends in an error before any model has been invoked.
C16_IndivisibleSizeFailsFast ==
    (prologue.pc # "idle"
     /\ (prologue.call.height % VaeScaleFactor # 0
         \/ prologue.call.width % VaeScaleFactor # 0)) =>
        /\ prologue.invoked = <<>>
        /\ prologue.pc \notin {"source", "loop"}

\* the shape of the latents the caller supplied, as the loop's layout (b, c, f, h, w)
Supplied(a) ==
    IF a.init_latents # <<>>
    THEN <<a.init_latents[1] \div NumFrames, a.init_latents[2], NumFrames,
           a.init_latents[3], a.init_latents[4]>>
    ELSE a.latents

\* C17: a call given latents or init_latents of another shape than (batch, channels,
\* video_length, height / vae_scale_factor, width / vae_scale_factor) never gets past
\* the preparation of the latents: no denoising timestep runs on such latents.
C17_MismatchedLatentsRejected ==
    (prologue.pc \in {"source", "loop"}
     /\ (prologue.call.init_latents # <<>> \/ prologue.call.latents # <<>>)) =>
        /\ Supplied(prologue.call) = ExpectedShape(prologue.call)
        /\ prologue.call.init_latents # <<>> =>
              prologue.call.init_latents[1] = NumFrames * ExpectedShape(prologue.call)[1]

\* C18: interpolate_latents returns its input when the factor is below 2, and for a
\* factor k >= 2 and F >= 1 input frames it returns (F - 1) * k + 1 frames, every one
\* of them written.
C18_InterpolatedLength ==
    interp.pc \in {"done", "error"} =>
        IF interp.interpolation_factor < 2
        THEN interp.pc = "done" /\ interp.result = interp.latents
        ELSE /\ interp.pc = "done"
             /\ Len(interp.result) =
                   (Len(interp.latents) - 1) * interp.interpolation_factor + 1
             /\ \A k \in DOMAIN interp.result : interp.result[k] # ZeroFrame

\* C19: for a factor k >= 2 and F >= 2 input frames, input frame i is output frame
\* i * k, and output frame i * k + j (0 < j < k) is the interpolation of input frames
\* i and i + 1 at the fraction j / k.
C19_FramesAndBlendsInPlace ==
    (interp.pc = "done" /\ interp.interpolation_factor >= 2 /\ Len(interp.latents) >= 2) =>
        LET k == interp.interpolation_factor
            F == Len(interp.latents)
        IN  /\ Len(interp.result) = (F - 1) * k + 1
            /\ \A n \in 0 .. (F - 1) : interp.result[n * k + 1] = interp.latents[n + 1]
            /\ \A n \in 0 .. (F - 2) :
                  \A j \in 1 .. (k - 1) :
                      interp.result[n * k + j + 1] =
                          [v0 |-> interp.latents[n + 1], v1 |-> interp.latents[n + 2],
                           f |-> <<j \div Gcd[j, k], k \div Gcd[j, k]>>]

\* C19's case: three different frames have been interpolated with factor 3
C19_Witness ==
    /\ interp.pc = "done"
    /\ interp.interpolation_factor = 3
    /\ interp.latents = <<1, 2, 3>>
    /\ Len(interp.result) = 7

\* the inversion steps invert is to perform
InvertSteps(a) ==
    IF a.num_actual_inference_steps = None THEN a.num_inference_steps
    ELSE Min(a.num_actual_inference_steps, a.num_inference_steps)

\* C20: a call of invert with an image and a prompt raises nothing, and once it has
\* encoded the image its trajectory starts with the encoded latent and grows by one
\* entry per performed step, up to the first min(num_actual_inference_steps,
\* num_inference_steps) reversed timesteps.
C20_InvertReturnsTrajectory ==
    inversion.pc # "idle" =>
        /\ inversion.error = ""
        /\ inversion.pc \in {"loop", "done"} =>
              /\ inversion.steps <= InvertSteps(inversion.call)
              /\ Len(inversion.latents_list) = 1 + inversion.steps
              /\ inversion.latents_list[1] = "encoded"
        /\ inversion.pc = "done" => inversion.steps = InvertSteps(inversion.call)

\* the unet calls of rank r in the timestep at position step
CallsOf(r, step) ==
    LET InStep(call) == call.step = step
    IN  SelectSeq(unet_log[r], InStep)

\* what the unet returned for a batch: entry (h - 1) * n + j is window j in half h
PredictionOf(r, context) ==
    Unet(LatentModelInput(latents[r], context, Guidance, Timestep(args, it[r] - 1)),
         Timestep(args, it[r] - 1),
         TextEmbeddings(args.context_batch_size, Guidance),
         PoseGuideConditions(ControlnetCond(context), args.context_batch_size, Guidance))

\* the sum over the windows of the batches that contain frame f of the unet's
\* prediction for that window at f, in half h
RECURSIVE WindowSum(_, _, _, _)
WindowSum(r, batches, h, f) ==
    IF batches = <<>> THEN 0
    ELSE LET context == Head(batches)
             n == Len(context)
             pred == PredictionOf(r, context)
         IN  SumSeq([j \in 1 .. n |->
                        IF f \in Range(context[j])
                        THEN pred[(h - 1) * n + j][PosOf(context[j], f)]
                        ELSE 0])
             + WindowSum(r, Tail(batches), h, f)

\* the number of windows of the batches that contain frame f
WindowCount(batches, f) ==
    Cardinality({k \in DOMAIN Flatten(batches) : f \in Range(Flatten(batches)[k])})

\* a rank's scatter-add has raised: the call ended right after reader.clear()
ScatterRaised(r) ==
    /\ pc[r] = "error"
    /\ trace[r] # <<>>
    /\ trace[r][Len(trace[r])].op = "reader_clear"

\* C21: the scatter-add of a batch succeeds whatever the batch size and the guidance,
\* and until a rank's sums are merged or divided they hold, per frame, the unet's
\* predictions for the windows it ran that contain the frame, and the counter holds
\* the number of those windows.
C21_ScatterAddsWindowPrediction ==
    \A r \in Ranks :
        /\ ~ScatterRaised(r)
        /\ pc[r] \in {"windows", "unet", "gather", "barrier1", "wait1"} =>
              \A f \in Frames :
                  /\ \A h \in DOMAIN noise_pred[r] :
                        noise_pred[r][h][f] = WindowSum(r, RanBatches(r, it[r] - 1), h, f)
                  /\ counter[r][f] = WindowCount(RanBatches(r, it[r] - 1), f)

\* C21 where no scatter-add raises: what the accumulators hold
C21_SumsWhereScatterSucceeds ==
    \A r \in Ranks :
        pc[r] \in {"windows", "unet", "gather", "barrier1", "wait1"} =>
            \A f \in Frames :
                /\ \A h \in DOMAIN noise_pred[r] :
                      noise_pred[r][h][f] = WindowSum(r, RanBatches(r, it[r] - 1), h, f)
                /\ counter[r][f] = WindowCount(RanBatches(r, it[r] - 1), f)

\* C22: in every unet call, batch entry k of the control conditions holds the control
\* maps of the frames of the window in latent entry k, in order.
C22_ControlEntryMatchesWindow ==
    \A r \in Ranks :
        \A c \in DOMAIN unet_log[r] :
            \A e \in DOMAIN unet_log[r][c].pairs :
                unet_log[r][c].pairs[e].pose = unet_log[r][c].pairs[e].frames

CanonicalCollectives ==
    LET n == args.num_inference_steps
        executed == n - FirstExecuted
    IN  [k \in 1 .. (4 * executed + 1) |->
            IF k <= 4 * executed
            THEN Event(<<"gather", "barrier", "broadcast", "barrier">>[((k - 1) % 4) + 1],
                       FirstExecuted + ((k - 1) \div 4))
            ELSE Event("barrier", n)]

\* how many collectives a rank at the position of rank r has entered, by the program
\* text alone
CollectivesEntered(r) ==
    LET n == args.num_inference_steps
        whole(steps) == 4 * (IF steps > FirstExecuted THEN steps - FirstExecuted ELSE 0)
    IN  CASE pc[r] \in {"loop", "decode", "barrier3"} -> whole(it[r])
          [] pc[r] \in {"wait3", "done"} -> whole(n) + 1
          [] pc[r] \in {"windows", "unet", "error", "gather"} -> whole(it[r] - 1)
          [] pc[r] = "barrier1" -> whole(it[r] - 1) + 1
          [] pc[r] \in {"wait1", "merge", "guidance", "step", "broadcast"} ->
                whole(it[r] - 1) + 2
          [] pc[r] = "barrier2" -> whole(it[r] - 1) + 3
          [] pc[r] \in {"wait2", "clear"} -> whole(it[r] - 1) + 4

Returned == \A r \in Ranks : pc[r] = "done"

Raised == \E r \in Ranks : pc[r] = "error"

\* C24: in a distributed run the collectives a rank has entered are the first ones of
\* the same sequence on every rank (gather, barrier, broadcast, barrier per executed
\* timestep, then one barrier after the decode), as many as its position in the program
\* says, whatever its slice of the batches holds; and unless a rank raises, every rank
\* eventually returns.
C24_CollectivesMatchAndReturn ==
    /\ [](args.dist =>
            \A r \in Ranks :
                Collectives(r) = SubSeq(CanonicalCollectives, 1, CollectivesEntered(r)))
    /\ <>(Returned \/ Raised)

\* C24's case: a two-rank run over a single batch, so that rank 1's slice is empty in
\* both executed timesteps, in which both ranks have returned
C24_Witness ==
    /\ args.world_size = 2
    /\ Returned
    /\ \A r \in Ranks : Collectives(r) = CanonicalCollectives
    /\ Len(CanonicalCollectives) = 9
    /\ Len(GlobalContext(args.context_queue, args.context_batch_size)) = 1
    /\ unet_log[1] = <<>>
    /\ Len(unet_log[0]) = 2

\* C25: clear_reference_control never raises; before any train() it changes nothing,
\* after a train() with a reference encoder it leaves both controls dropped, and a
\* second call in a row returns and leaves the pipeline as the first call left it.
C25_ClearIsSafeAndIdempotent ==
    ref_control.pc = "ready" =>
        \A k \in DOMAIN ref_control.log :
            ref_control.log[k].op = "clear" =>
                /\ ref_control.log[k].outcome = "returned"
                /\ k = Len(ref_control.log) =>
                      /\ ref_control.reader \in {"unset", "None"}
                      /\ ref_control.writer \in {"unset", "None"}

====
